---- MODULE Spec2Model ----
(***************************************************************************)
(* A model of project_paths.py: caller-relative discovery of               *)
(* pyproject.toml, the Paths registry built from its [tool.project-paths]  *)
(* table, and the module-level `paths` attribute.                          *)
(*                                                                         *)
(* Text (file names, table values) is a sequence of characters; "/" is the *)
(* separator.  A directory or file name such as "pyproject.toml" is one    *)
(* indivisible character of that alphabet.  A pathlib path is a record     *)
(* [root, parts]: root is "", "/" or "//", parts the sequence of           *)
(* components, each component a non-empty sequence of characters.          *)
(***************************************************************************)
EXTENDS Integers, Sequences, FiniteSets, TLC

VARIABLES fs, cwd, stack, pc, locals, found, cfgArg, registry, looked, module_paths, earlier

vars == <<fs, cwd, stack, pc, locals, found, cfgArg, registry, looked, module_paths, earlier>>

(***************************************************************************)
(* Bounds of the model.                                                    *)
(***************************************************************************)
\* depth of the directory chain /, /p, /p/s, ...
MaxDepth == 2
\* frames of a call stack outside _find_caller_module_name_and_file's own
MaxStack == 3
\* characters of a table value
MaxSeg == 3

(***************************************************************************)
(* pathlib (PurePosixPath)                                                 *)
(***************************************************************************)
Sep == "/"
Dot == "."

RECURSIVE Runs(_, _, _)
\* str.split("/"): the maximal runs of characters between separators
Runs(s, i, cur) ==
  IF i > Len(s) THEN <<cur>>
  ELSE IF s[i] = Sep THEN <<cur>> \o Runs(s, i + 1, <<>>)
       ELSE Runs(s, i + 1, Append(cur, s[i]))

RECURSIVE LeadingSeps(_, _)
LeadingSeps(s, i) ==
  IF i <= Len(s) /\ s[i] = Sep THEN 1 + LeadingSeps(s, i + 1) ELSE 0

IsComponent(c) == c # <<>> /\ c # <<Dot>>

\* Path(text): exactly two leading slashes are kept as the root "//", empty
\* and "." components are dropped, ".." is kept
Path(s) ==
  [root  |-> LET n == LeadingSeps(s, 1)
             IN IF n = 0 THEN "" ELSE IF n = 2 THEN "//" ELSE "/",
   parts |-> SelectSeq(Runs(s, 1, <<>>), IsComponent)]

is_absolute(p) == p.root # ""

Front(s) == SubSeq(s, 1, Len(s) - 1)

\* Path.parent: the path without its last component; "/" and "." are their
\* own parents
parent(p) == IF p.parts = <<>> THEN p ELSE [p EXCEPT !.parts = Front(p.parts)]

\* Path.parents: the successive parents, nearest first; empty for "/" and "."
parents(p) ==
  [k \in 1..Len(p.parts) |-> [p EXCEPT !.parts = SubSeq(p.parts, 1, Len(p.parts) - k)]]

\* p / name, p.joinpath(q): an absolute q replaces p
joinpath(p, q) ==
  IF is_absolute(q) THEN q ELSE [p EXCEPT !.parts = p.parts \o q.parts]

NoPath == [root |-> "", parts |-> <<>>]

(***************************************************************************)
(* The file system: a chain of directories, each holding a source file     *)
(* mod.py and possibly a pyproject.toml with a parsed document.            *)
(***************************************************************************)
LevelName == <<"p", "s", "t", "u">>
Dir(n) == [i \in 1..n |-> <<LevelName[i]>>]
Dirs == {Dir(n) : n \in 0..MaxDepth}

PyProject == <<"pyproject.toml">>
ModPy == <<"mod.py">>
DotDot == <<Dot, Dot>>

NoDoc == [tool |-> "nofile", pp |-> "absent", table |-> <<>>]

IsPrefix(a, b) == Len(a) <= Len(b) /\ SubSeq(b, 1, Len(a)) = a

RECURSIVE Collapse(_, _)
\* the components with each ".." taken against the component before it
Collapse(parts, acc) ==
  IF parts = <<>> THEN acc
  ELSE IF Head(parts) = DotDot
       THEN Collapse(Tail(parts), IF acc = <<>> THEN acc ELSE Front(acc))
       ELSE Collapse(Tail(parts), Append(acc, Head(parts)))

\* the absolute location a path names: a relative path is taken from the
\* current working directory
Loc(p, wd) == Collapse(IF is_absolute(p) THEN p.parts ELSE wd \o p.parts, <<>>)

\* Path.resolve()
resolve(p, wd) == [root |-> "/", parts |-> Loc(p, wd)]

is_dir(p, wd) == Loc(p, wd) \in Dirs

HasConfig(files, d) == d \in Dirs /\ files[d] # NoDoc

is_file(p, wd, files) ==
  LET l == Loc(p, wd)
  IN /\ l # <<>>
     /\ \/ l[Len(l)] = ModPy /\ Front(l) \in Dirs
        \/ l[Len(l)] = PyProject /\ HasConfig(files, Front(l))

(***************************************************************************)
(* Call stacks.  A frame carries its globals' __name__ and __file__, and   *)
(* the directory its source file really lies in.                           *)
(***************************************************************************)
ThisModule == "project_paths"
NoName == "<None>"

RECURSIVE Text(_)
\* the directory's absolute name as text, with a trailing separator
Text(d) == IF d = <<>> THEN <<Sep>> ELSE Text(Front(d)) \o d[Len(d)] \o <<Sep>>

AbsName(d) == Text(d) \o ModPy

RECURSIVE RelText(_, _)
RelText(d, k) == IF k >= Len(d) THEN <<>> ELSE d[k + 1] \o <<Sep>> \o RelText(d, k + 1)

\* the file's name relative to the working directory wd, a prefix of d
RelName(d, wd) == RelText(d, Len(wd)) \o ModPy

ThisFrame == [name |-> ThisModule, hasFile |-> TRUE, file |-> <<"project_paths.py">>, loc |-> <<>>]

AbsFrames == {[name |-> "app", hasFile |-> TRUE, file |-> AbsName(d), loc |-> d] : d \in Dirs}

RelFrames(wd) ==
  {[name |-> "app", hasFile |-> TRUE, file |-> RelName(d, wd), loc |-> d] :
     d \in {x \in Dirs : IsPrefix(wd, x)}}

\* a module without __file__ (built in, or run from a string)
NoFileFrame == [name |-> "builtin", hasFile |-> FALSE, file |-> <<>>, loc |-> <<>>]

\* code run with globals that have no __name__
NoNameFrame == [name |-> NoName, hasFile |-> FALSE, file |-> <<>>, loc |-> <<>>]

Unbound == 0

\* the loop runs on after a match: the outermost frame outside this module
\* is the one returned
Crawl_Outermost(st, i) ==
  LET out == {j \in i..Len(st) : st[j].name # ThisModule}
      last == CHOOSE j \in out : \A k \in out : k <= j
  IN IF out = {}
     THEN [kind |-> "RuntimeError", mod_name |-> ThisModule, hasFile |-> FALSE,
           filename |-> <<>>, frame_info |-> Len(st)]
     ELSE [kind |-> "return", mod_name |-> st[last].name, hasFile |-> st[last].hasFile,
           filename |-> st[last].file, frame_info |-> Len(st)]

\* lines 204-210: the body of the try block.  frame_info is the index of the
\* frame the loop variable is bound to when the block is left.
RECURSIVE Crawl(_, _)
Crawl(st, i) ==
  IF i > Len(st)
  THEN [kind |-> "RuntimeError", mod_name |-> ThisModule, hasFile |-> FALSE,
        filename |-> <<>>, frame_info |-> i - 1]
  ELSE IF st[i].name # ThisModule
       THEN IF st[i].name = NoName
            THEN [kind |-> "AssertionError", mod_name |-> NoName, hasFile |-> FALSE,
                  filename |-> <<>>, frame_info |-> i]
            ELSE [kind |-> "return", mod_name |-> st[i].name, hasFile |-> st[i].hasFile,
                  filename |-> st[i].file, frame_info |-> i]
       ELSE Crawl(st, i + 1)

TryBlock(st) == Crawl(st, 1)

\* the finally clause left out: the loop variable stays bound
FinallyKeepsFrame(r) == r

\* lines 211-214: del frame_info
Finally(r) ==
  IF r.frame_info = Unbound
  THEN [r EXCEPT !.kind = "UnboundLocalError"]
  ELSE [r EXCEPT !.frame_info = Unbound]

_find_caller_module_name_and_file(st) == Finally(TryBlock(st))

NoLocals == [kind |-> "none", mod_name |-> NoName, hasFile |-> FALSE,
             filename |-> <<>>, frame_info |-> Unbound]

Outcome(k, p) == [kind |-> k, path |-> p]
NotFound == Outcome("none", NoPath)

RECURSIVE FirstConfig(_, _, _, _)
\* lines 138-145: the first directory of the list whose pyproject.toml is a file
FirstConfig(directories, i, wd, files) ==
  IF i > Len(directories) THEN Outcome("PyProjectNotFoundError", NoPath)
  ELSE LET candidate == joinpath(directories[i], Path(PyProject))
       IN IF is_file(candidate, wd, files) THEN Outcome("return", candidate)
          ELSE FirstConfig(directories, i + 1, wd, files)

\* lines 129-145, given what _find_caller_module_name_and_file did
SearchFrom(w, wd, files) ==
  IF w.kind # "return" THEN Outcome(w.kind, NoPath)
  ELSE IF ~w.hasFile THEN Outcome("PyProjectNotFoundError", NoPath)
  ELSE LET working_file == Path(w.filename)
           working_directory == parent(working_file)
       IN IF ~is_file(working_file, wd, files) THEN Outcome("AssertionError", NoPath)
          ELSE FirstConfig(<<working_directory>> \o parents(working_directory), 1, wd, files)

find_caller_relative_path_to_pyproject(st, wd, files) ==
  SearchFrom(_find_caller_module_name_and_file(st), wd, files)

(***************************************************************************)
(* Parsed configuration documents (what toml.load returns).                *)
(* tool: "absent", "scalar" (a value that is no table) or "table";         *)
(* pp, the project-paths entry of the tool table, likewise.                *)
(***************************************************************************)
PYPROJECT_TABLE_NAME == "project-paths"

Doc(t, p, tbl) == [tool |-> t, pp |-> p, table |-> tbl]

Keys == {"tests", "docs", "_x", "_paths"}

Chars == {Sep, Dot, "a"}
BoundedSeq(S, n) == UNION {[1..k -> S] : k \in 0..n}
Values == BoundedSeq(Chars, MaxSeg)
BasicValues == {<<"a">>, <<Sep, "a">>}

\* every table over the keys with the basic values, and every one-key table
\* with any value
Tables ==
  UNION {[K -> BasicValues] : K \in SUBSET Keys}
    \cup UNION {[{k} -> Values] : k \in Keys}

NoTableDocs ==
  {Doc("absent", "absent", <<>>), Doc("table", "absent", <<>>)}
MalformedDocs ==
  {Doc("scalar", "absent", <<>>), Doc("table", "scalar", <<>>)}
Docs == NoTableDocs \cup MalformedDocs \cup {Doc("table", "table", t) : t \in Tables}

BasicDoc == Doc("table", "table", [k \in {"tests"} |-> <<"a">>])

(***************************************************************************)
(* The Paths registry.  An outcome is the object built, or the exception   *)
(* raised: kind is "Paths" or the exception's class.                       *)
(***************************************************************************)
Reg(k, tbl, ns, p) == [kind |-> k, _paths |-> tbl, namespace |-> ns, path |-> p]
NoRegistry == Reg("none", <<>>, <<>>, NoPath)

\* of a registry or an exception, its kind and the names it holds
Summary(r) == [kind |-> r.kind, names |-> DOMAIN r._paths]
NoEarlier == Summary(NoRegistry)

\* every value joined onto the base, absolute or not
_make_path_AlwaysJoin(base, segment) ==
  [base EXCEPT !.parts = base.parts \o Path(segment).parts]

\* lines 184-193
_make_path(base, segment) ==
  LET original_path == Path(segment)
  IN IF is_absolute(original_path) THEN original_path
     ELSE joinpath(base, original_path)

\* the document of the file a path names
Load(pyproject_path, wd, files) == files[Front(Loc(pyproject_path, wd))]

\* the keys with a leading underscore left out of the registry
_parse_paths_SkipPrivate(pyproject_path, wd, files) ==
  LET config == Load(pyproject_path, wd, files).table
      base == parent(pyproject_path)
  IN Reg("Paths", [key \in DOMAIN config \ {"_x", "_paths"} |-> _make_path(base, config[key])],
         <<>>, NoPath)

\* a missing table read as an empty one
_parse_paths_MissingIsEmpty(pyproject_path, wd, files) ==
  LET config == Load(pyproject_path, wd, files).table
      base == parent(pyproject_path)
  IN Reg("Paths", [key \in DOMAIN config |-> _make_path(base, config[key])], <<>>, NoPath)

\* lines 90-104
_parse_paths(pyproject_path, wd, files) ==
  IF ~is_file(pyproject_path, wd, files)
  THEN Reg("FileNotFoundError", <<>>, <<>>, NoPath)
  ELSE LET pyproject == Load(pyproject_path, wd, files)
           base == parent(pyproject_path)
       IN IF pyproject.tool = "absent" \/ (pyproject.tool = "table" /\ pyproject.pp = "absent")
          THEN Reg("ConfigurationNotFoundError", <<>>, <<"tool", PYPROJECT_TABLE_NAME>>,
                   resolve(pyproject_path, wd))
          ELSE IF pyproject.tool = "scalar" THEN Reg("TypeError", <<>>, <<>>, NoPath)
          ELSE IF ~is_dir(base, wd) THEN Reg("AssertionError", <<>>, <<>>, NoPath)
          ELSE IF pyproject.pp = "scalar" THEN Reg("AttributeError", <<>>, <<>>, NoPath)
          ELSE Reg("Paths",
                   [key \in DOMAIN pyproject.table |-> _make_path(base, pyproject.table[key])],
                   <<>>, NoPath)

\* lines 86-87: Paths(configuration_path)
Paths(configuration_path, wd, files) == _parse_paths(configuration_path, wd, files)

\* what a Paths object has besides its keys: the instance's _paths, the
\* class's methods, and (some of) what every object has
InstanceAttrs == {"_paths"}
ClassAttrs == {"_parse_paths", "__init__", "__getattr__", "__dir__", "__len__"}
ObjectAttrs == {"__class__", "__dict__", "__doc__"}
OwnAttrs == InstanceAttrs \cup ClassAttrs \cup ObjectAttrs

Value(k, nm, p, nms, count) == [kind |-> k, name |-> nm, path |-> p, names |-> nms, n |-> count]
NoValue == Value("none", "", NoPath, {}, 0)

\* an unknown name answered with a default path
Paths___getattr__Default(self, name) ==
  IF name \in DOMAIN self._paths THEN Value("Path", name, self._paths[name], {}, 0)
  ELSE Value("Path", name, NoPath, {}, 0)

\* lines 106-110
Paths___getattr__(self, name) ==
  IF name \in DOMAIN self._paths THEN Value("Path", name, self._paths[name], {}, 0)
  ELSE Value("AttributeError", name, NoPath, {}, 0)

\* self.name: __getattr__ is asked only when the ordinary lookup (instance,
\* then class) finds nothing
getattr(self, name) ==
  IF name \in InstanceAttrs THEN Value("dict", name, NoPath, DOMAIN self._paths, 0)
  ELSE IF name \in ClassAttrs \cup ObjectAttrs THEN Value("attribute", name, NoPath, {}, 0)
  ELSE Paths___getattr__(self, name)

\* lines 112-113, as the set the sorted list holds
Paths___dir__(self) == Value("dir", "", NoPath, OwnAttrs \cup DOMAIN self._paths, 0)

\* lines 115-116
Paths___len__(self) == Value("len", "", NoPath, {}, Cardinality(DOMAIN self._paths))

(***************************************************************************)
(* The module-level attribute `paths`.  module_paths is the entry "paths"  *)
(* of the module's globals (NoRegistry: no such entry).  A function's      *)
(* result is its value and the module's globals as it leaves them.         *)
(***************************************************************************)
PATHS_ATTRIBUTE_NAME == "paths"

Result(v, g) == [value |-> v, globals |-> g]

Fresh(st, wd, files) ==
  LET pyproject_path == find_caller_relative_path_to_pyproject(st, wd, files)
  IN IF pyproject_path.kind = "return" THEN Paths(pyproject_path.path, wd, files)
     ELSE Reg(pyproject_path.kind, <<>>, <<>>, NoPath)

\* the registry built is kept in the module's globals
_get_default_paths_Cached(globals, st, wd, files) ==
  Result(Fresh(st, wd, files), Fresh(st, wd, files))

\* lines 179-181
_get_default_paths(globals, st, wd, files) == Result(Fresh(st, wd, files), globals)

\* lines 156-164
module___getattr__(name, globals, st, wd, files) ==
  IF name = PATHS_ATTRIBUTE_NAME THEN _get_default_paths(globals, st, wd, files)
  ELSE Result(Reg("AttributeError", <<>>, <<>>, NoPath), globals)

\* module.name (PEP 562): the module's __getattr__ is asked only when the
\* module's globals have no such entry; line 153 annotates `paths` and
\* assigns nothing
ModuleAttribute(name, globals, st, wd, files) ==
  IF name = PATHS_ATTRIBUTE_NAME /\ globals # NoRegistry THEN Result(globals, globals)
  ELSE module___getattr__(name, globals, st, wd, files)

(***************************************************************************)
(* Discovery, step by step: the try block of the stack walk, its finally   *)
(* clause, then the search of the directories.                             *)
(***************************************************************************)
\* find_caller_relative_path_to_pyproject() is called with this stack
Enter(st) ==
  /\ pc = "idle"
  /\ pc' = "try"
  /\ stack' = st
  /\ locals' = TryBlock(st)
  /\ UNCHANGED <<fs, cwd, found, cfgArg, registry, looked, module_paths, earlier>>

\* the finally clause runs as the walk returns or raises
RunFinally ==
  /\ pc = "try"
  /\ pc' = "walked"
  /\ locals' = Finally(locals)
  /\ UNCHANGED <<fs, cwd, stack, found, cfgArg, registry, looked, module_paths, earlier>>

\* lines 129-145
Search ==
  /\ pc = "walked"
  /\ pc' = "done"
  /\ found' = SearchFrom(locals, cwd, fs)
  /\ UNCHANGED <<fs, cwd, stack, locals, cfgArg, registry, looked, module_paths, earlier>>


\* the caller has the result; the next call may start
Return ==
  /\ pc = "done"
  /\ pc' = "idle"
  /\ stack' = <<>>
  /\ locals' = NoLocals
  /\ found' = NotFound
  /\ UNCHANGED <<fs, cwd, cfgArg, registry, looked, module_paths, earlier>>

Idle ==
  /\ pc = "idle"
  /\ stack = <<>>
  /\ locals = NoLocals
  /\ found = NotFound
  /\ cfgArg = NoPath
  /\ registry = NoRegistry
  /\ looked = NoValue
  /\ module_paths = NoRegistry
  /\ earlier = NoEarlier

\* the file "../mod.py" of the directory above the working directory
UpFrames(wd) ==
  {[name |-> "app", hasFile |-> TRUE, file |-> DotDot \o <<Sep>> \o ModPy, loc |-> Front(wd)] :
     x \in {y \in {wd} : y # <<>>}}

CallerFrames(wd) == AbsFrames \cup RelFrames(wd) \cup UpFrames(wd) \cup {NoFileFrame}

\* the stack of a call made by a caller's module: this module's frames, then
\* the caller's
CallerStacks(wd) == {<<ThisFrame, ThisFrame, c>> : c \in CallerFrames(wd)}

Init ==
  /\ fs \in [Dirs -> {NoDoc, BasicDoc}]
  /\ cwd \in Dirs
  /\ Idle

Next ==
  \/ \E st \in CallerStacks(cwd) : Enter(st)
  \/ RunFinally
  \/ Search
  \/ Return

Spec == Init /\ [][Next]_vars

\* any stack: frames of this module, of other modules, with or without a
\* file or a name, in any order outside the walk's own frame
WalkFrames == {ThisFrame, NoFileFrame, NoNameFrame} \cup AbsFrames
WalkStacks == {<<ThisFrame>> \o r : r \in BoundedSeq(WalkFrames, MaxStack)}

InitWalk ==
  /\ fs \in {[d \in Dirs |-> NoDoc], [d \in Dirs |-> IF d = <<>> THEN BasicDoc ELSE NoDoc]}
  /\ cwd = <<>>
  /\ Idle

NextWalk ==
  \/ \E st \in WalkStacks : Enter(st)
  \/ RunFinally
  \/ Search
  \/ Return

SpecWalk == InitWalk /\ [][NextWalk]_vars

(***************************************************************************)
(* Claims about discovery.                                                 *)
(***************************************************************************)
Outside(st) == {i \in 1..Len(st) : st[i].name # ThisModule}
Min(S) == CHOOSE x \in S : \A y \in S : x <= y
Max(S) == CHOOSE x \in S : \A y \in S : x >= y

\* the directories of the chain D, parent(D), ..., root holding a pyproject.toml,
\* as lengths of prefixes of D
ConfiguredAncestors(D, files) == {n \in 0..Len(D) : HasConfig(files, SubSeq(D, 1, n))}

\* C1: for a caller file in directory D, whatever form its recorded name takes,
\* discovery returns the existing pyproject.toml of the nearest directory of
\* the chain D, parent(D), ..., root that has one, and fails with
\* PyProjectNotFoundError exactly when no directory of the chain has one.
C1_NearestAncestor ==
  (pc = "done" /\ Outside(stack) # {} /\ stack[Min(Outside(stack))].hasFile) =>
    LET D == stack[Min(Outside(stack))].loc
        have == ConfiguredAncestors(D, fs)
    IN IF have = {}
       THEN found.kind = "PyProjectNotFoundError"
       ELSE /\ found.kind = "return"
            /\ is_file(found.path, cwd, fs)
            /\ Loc(found.path, cwd) = Append(SubSeq(D, 1, Max(have)), PyProject)

\* C8: when every frame of the stack belongs to this module, discovery fails
\* with PyProjectNotFoundError.
C8_ExhaustedIsNotFound ==
  (pc = "done" /\ Outside(stack) = {}) => found.kind = "PyProjectNotFoundError"

\* C9: when the walk returns a caller, it is the first frame, innermost first,
\* whose module is not this module: every frame inner to it is this module's,
\* and the recorded name and file are that frame's; and the walk does return
\* whenever such a frame exists and its module has a name.
C9_FirstOutsideFrame ==
  (pc \in {"try", "walked", "done"}) =>
    /\ locals.kind = "return" =>
         /\ Outside(stack) # {}
         /\ LET i == Min(Outside(stack))
            IN /\ \A j \in 1..(i - 1) : stack[j].name = ThisModule
               /\ locals.mod_name = stack[i].name
               /\ locals.hasFile = stack[i].hasFile
               /\ locals.filename = stack[i].file
    /\ (Outside(stack) # {} /\ stack[Min(Outside(stack))].name # NoName) =>
         locals.kind = "return"

\* a caller three frames out, with a different file further out
C9_Witness ==
  /\ pc = "walked"
  /\ locals.kind = "return"
  /\ Len(stack) = 4
  /\ Outside(stack) = {3, 4}
  /\ stack[3].hasFile /\ stack[4].hasFile
  /\ stack[3].file # stack[4].file
  /\ locals.filename = stack[3].file

\* C10: once the walk has ended, by return or by exception, no frame handle is
\* held.
C10_FrameReleased ==
  (pc \in {"walked", "done"}) => locals.frame_info = Unbound

\* the error path: no caller outside this module, and the handle released
C10_Witness ==
  /\ pc = "walked"
  /\ locals.kind = "RuntimeError"
  /\ Len(stack) >= 2
  /\ locals.frame_info = Unbound

(***************************************************************************)
(* Registries: one configuration file, built from its path.                *)
(***************************************************************************)
\* the names a configuration file in directory d can be given by
CfgArgs(d, wd) ==
  {[root |-> "/", parts |-> Append(d, PyProject)]}
    \cup {[root |-> "", parts |-> Append(SubSeq(d, Len(wd) + 1, Len(d)), PyProject)] :
            x \in {y \in {d} : IsPrefix(wd, y)}}

InitRegistry ==
  /\ cwd \in Dirs
  /\ \E d \in Dirs :
       /\ \E doc \in Docs \cup {NoDoc} : fs = [x \in Dirs |-> IF x = d THEN doc ELSE NoDoc]
       /\ cfgArg \in CfgArgs(d, cwd)
  /\ pc = "idle"
  /\ stack = <<>>
  /\ locals = NoLocals
  /\ found = NotFound
  /\ registry = NoRegistry
  /\ looked = NoValue
  /\ module_paths = NoRegistry
  /\ earlier = NoEarlier

\* Paths(configuration_path)
Build ==
  /\ pc = "idle"
  /\ pc' = "built"
  /\ registry' = Paths(cfgArg, cwd, fs)
  /\ UNCHANGED <<fs, cwd, stack, locals, found, cfgArg, looked, module_paths, earlier>>

Names == Keys \cup {"__len__", "does_not_exist"}

\* registry.name
GetAttr(name) ==
  /\ pc = "built"
  /\ registry.kind = "Paths"
  /\ looked' = getattr(registry, name)
  /\ UNCHANGED <<fs, cwd, stack, pc, locals, found, cfgArg, registry, module_paths, earlier>>

\* dir(registry)
DirOf ==
  /\ pc = "built"
  /\ registry.kind = "Paths"
  /\ looked' = Paths___dir__(registry)
  /\ UNCHANGED <<fs, cwd, stack, pc, locals, found, cfgArg, registry, module_paths, earlier>>

\* len(registry)
LenOf ==
  /\ pc = "built"
  /\ registry.kind = "Paths"
  /\ looked' = Paths___len__(registry)
  /\ UNCHANGED <<fs, cwd, stack, pc, locals, found, cfgArg, registry, module_paths, earlier>>

NextRegistry ==
  \/ Build
  \/ \E name \in Names : GetAttr(name)
  \/ DirOf
  \/ LenOf

SpecRegistry == InitRegistry /\ [][NextRegistry]_vars

(***************************************************************************)
(* Claims about registries.                                                *)
(***************************************************************************)
ConfigDirs == {d \in Dirs : fs[d] # NoDoc}
\* the directory of the one configuration file, and its document
ConfigDir == CHOOSE d \in ConfigDirs : TRUE
Source == IF ConfigDirs = {} THEN NoDoc ELSE fs[ConfigDir]
HasTable == Source.tool = "table" /\ Source.pp = "table"
Built == pc = "built" /\ registry.kind = "Paths"
Looked == looked.kind \in {"Path", "dict", "attribute", "AttributeError"}

\* the components of a value: what lies between its separators, without the
\* empty and the "." ones
Components(v) == SelectSeq(Runs(v, 1, <<>>), IsComponent)
StartsWithSep(v) == v # <<>> /\ v[1] = Sep

\* join(C, value), C the configuration file's directory as it was named
Resolved(v) ==
  IF StartsWithSep(v) THEN Path(v)
  ELSE [root |-> cfgArg.root, parts |-> Front(cfgArg.parts) \o Components(v)]

\* C2: for every key k of the table, any string, the lookup of k returns the
\* resolved path of k's entry.
C2_KeyLookupReturnsPath ==
  (Built /\ HasTable /\ Looked /\ looked.name \in DOMAIN Source.table) =>
    /\ looked.kind = "Path"
    /\ looked.path = Resolved(Source.table[looked.name])

\* C3 as stated: for every name that is not a key of the table, the lookup
\* fails with AttributeError.
C3_UnknownNameFails ==
  (Built /\ HasTable /\ Looked /\ looked.name \notin DOMAIN Source.table) =>
    looked.kind = "AttributeError"

\* C3 as amended: for every name that is neither a key of the table nor the
\* name of an attribute the registry object has of its own, the lookup fails
\* with AttributeError, returns no value, and the registry is as it was built.
C3_UnknownNameFailsUnlessOwn ==
  (Built /\ HasTable /\ Looked
     /\ looked.name \notin DOMAIN Source.table /\ looked.name \notin OwnAttrs) =>
    /\ looked.kind = "AttributeError"
    /\ looked.path = NoPath
    /\ DOMAIN registry._paths = DOMAIN Source.table
    /\ \A k \in DOMAIN Source.table : registry._paths[k] = Resolved(Source.table[k])

C3_Witness ==
  /\ Built /\ HasTable
  /\ DOMAIN Source.table # {}
  /\ looked.kind = "AttributeError"
  /\ looked.name = "does_not_exist"

\* C4 as stated: a table of N keys gives a registry of N entries, one per key,
\* and the names dir() enumerates are the table's keys.
C4_SizeAndNames ==
  (Built /\ HasTable) =>
    /\ DOMAIN registry._paths = DOMAIN Source.table
    /\ looked.kind = "len" => looked.n = Cardinality(DOMAIN Source.table)
    /\ looked.kind = "dir" => looked.names = DOMAIN Source.table

\* C4 as amended: a table of N keys gives a registry of N entries, one per key,
\* and the names dir() enumerates are the table's keys together with the
\* names of the object's own attributes.
C4_SizeAndNamesWithOwn ==
  (Built /\ HasTable) =>
    /\ DOMAIN registry._paths = DOMAIN Source.table
    /\ looked.kind = "len" => looked.n = Cardinality(DOMAIN Source.table)
    /\ looked.kind = "dir" =>
         /\ DOMAIN Source.table \subseteq looked.names
         /\ looked.names \ DOMAIN Source.table \subseteq OwnAttrs
         /\ OwnAttrs \subseteq looked.names

C4_Witness ==
  /\ Built /\ HasTable
  /\ Cardinality(DOMAIN Source.table) = 3
  /\ "_x" \in DOMAIN Source.table
  /\ looked.kind = "len"
  /\ looked.n = 3

\* C5: an entry whose value is an absolute path is that path; any other entry
\* is its value joined onto the directory of the configuration file.
C5_AbsoluteKeptRelativeJoined ==
  (Built /\ HasTable) =>
    \A k \in DOMAIN Source.table :
      LET v == Source.table[k]
      IN IF StartsWithSep(v)
         THEN /\ registry._paths[k].root # ""
              /\ registry._paths[k].parts = Components(v)
         ELSE /\ registry._paths[k].root = cfgArg.root
              /\ registry._paths[k].parts = Front(cfgArg.parts) \o Components(v)

\* an absolute and a relative value, the file named relative to the working
\* directory
C5_Witness ==
  /\ Built /\ HasTable
  /\ cfgArg.root = "" /\ Len(cfgArg.parts) = 2
  /\ \E k \in DOMAIN Source.table : Source.table[k] = <<Sep, "a">>
  /\ \E k \in DOMAIN Source.table : Source.table[k] = <<"a">>

\* C6: with no tool section, or a tool section without project-paths, building
\* fails with ConfigurationNotFoundError naming tool.project-paths and the
\* file's resolved path, and no registry is produced.
C6_MissingTableFails ==
  (pc = "built" /\ Source \in NoTableDocs) =>
    /\ registry.kind = "ConfigurationNotFoundError"
    /\ registry.namespace = <<"tool", "project-paths">>
    /\ registry.path = [root |-> "/", parts |-> Append(ConfigDir, PyProject)]
    /\ registry._paths = <<>>

C6_Witness ==
  /\ pc = "built"
  /\ Source = Doc("table", "absent", <<>>)
  /\ cfgArg.root = "" /\ Len(cwd) = 1
  /\ registry.kind = "ConfigurationNotFoundError"

(***************************************************************************)
(* The accessor: reads of project_paths.paths by callers in any directory, *)
(* with configuration files written and removed and the working directory  *)
(* changed between reads.  registry is what the latest read returned,      *)
(* earlier the kind and names of what the read before it returned.         *)
(***************************************************************************)
OtherDoc == Doc("table", "table", [k \in {"tests", "docs"} |-> IF k = "tests" THEN <<Sep, "a">> ELSE <<"a">>])
AccessorDocs == {BasicDoc, OtherDoc}

\* _find_caller_module_name_and_file, find_caller_relative_path_to_pyproject,
\* _get_default_paths, __getattr__, then the reader
AccessorStacks(wd) ==
  {<<ThisFrame, ThisFrame, ThisFrame, ThisFrame, c>> : c \in CallerFrames(wd)}

InitAccessor ==
  /\ fs = [d \in Dirs |-> NoDoc]
  /\ cwd = <<>>
  /\ Idle

\* a caller evaluates project_paths.<name>
ReadAttribute(name, st) ==
  LET r == ModuleAttribute(name, module_paths, st, cwd, fs)
  IN /\ pc' = "returned"
     /\ stack' = st
     /\ registry' = r.value
     /\ module_paths' = r.globals
     /\ earlier' = Summary(registry)
     /\ UNCHANGED <<fs, cwd, locals, found, cfgArg, looked>>

\* a pyproject.toml is written, rewritten or removed
WriteFile(d, doc) ==
  /\ fs[d] # doc
  /\ fs' = [fs EXCEPT ![d] = doc]
  /\ pc' = "idle"
  /\ stack' = <<>>
  /\ UNCHANGED <<cwd, locals, found, cfgArg, registry, looked, module_paths, earlier>>

\* os.chdir
Chdir(d) ==
  /\ cwd # d
  /\ cwd' = d
  /\ pc' = "idle"
  /\ stack' = <<>>
  /\ UNCHANGED <<fs, locals, found, cfgArg, registry, looked, module_paths, earlier>>

NextAccessor ==
  \/ \E st \in AccessorStacks(cwd) : ReadAttribute(PATHS_ATTRIBUTE_NAME, st)
  \/ \E st \in {<<ThisFrame, NoFileFrame>>} : ReadAttribute("no_such_attribute", st)
  \/ \E d \in Dirs, doc \in AccessorDocs \cup {NoDoc} : WriteFile(d, doc)
  \/ \E d \in Dirs : Chdir(d)

SpecAccessor == InitAccessor /\ [][NextAccessor]_vars

\* C7: what a read of `paths` returns is decided by that read alone: the
\* discovery made from its caller, in the working directory and file system
\* of that moment, and the registry built from the document the file found
\* then holds; the module keeps nothing between reads.
C7_FreshEveryRead ==
  (pc = "returned" /\ registry.kind # "AttributeError") =>
    /\ module_paths = NoRegistry
    /\ LET f == find_caller_relative_path_to_pyproject(stack, cwd, fs)
       IN IF f.kind # "return" THEN registry.kind = f.kind
          ELSE LET doc == fs[Front(Loc(f.path, cwd))]
               IN /\ doc \in NoTableDocs => registry.kind = "ConfigurationNotFoundError"
                  /\ doc \notin NoTableDocs =>
                       /\ registry.kind = "Paths"
                       /\ DOMAIN registry._paths = DOMAIN doc.table
                       /\ \A k \in DOMAIN doc.table :
                            registry._paths[k] = _make_path(parent(f.path), doc.table[k])

\* two reads, the file rewritten in between: the second returns another
\* registry than the first
C7_Witness ==
  /\ pc = "returned"
  /\ earlier.kind = "Paths"
  /\ registry.kind = "Paths"
  /\ earlier.names # DOMAIN registry._paths
  /\ stack[5].loc = Dir(1)

====
